---- MODULE Spec2Model ----
(***************************************************************************)
(* Model of the Minesweeper engine of src/src/game.rs.                     *)
(*                                                                         *)
(* The engine is one struct (Minesweeper) mutated by three public          *)
(* operations: reveal, toggle_flag and chord.  Each operation is one       *)
(* atomic action.  The only nondeterminism inside an operation is the      *)
(* shuffle of place_mines, modelled as the choice of the set made of the   *)
(* first `mines` entries of the shuffled index list.                       *)
(*                                                                         *)
(* Spec is the engine as the view drives it: calls on the cells of the     *)
(* board.  SpecAnyArgs is the engine under any caller of the public API,   *)
(* which may also pass coordinates beyond the board.  An index past the    *)
(* end of the cell vector panics (Rust bounds check); the panic ends the   *)
(* process, so no action is enabled after it.                              *)
(*                                                                         *)
(* SpecView and SpecClock add the timer and the new-game commands of       *)
(* src/src/main.rs.  SpecSteps follows the engine calls loop by loop, and  *)
(* SpecStepsFair adds that a call in progress keeps running.  SpecGesture  *)
(* is the engine driven by the mouse listeners of the view.                *)
(***************************************************************************)
EXTENDS Integers, Sequences, FiniteSets, TLC

\* Board of the model (the presets of Difficulty::config are 9x9/10,
\* 16x16/40 and 16x30/99; the model uses a smaller board of the same shape).
Rows == 2
Cols == 3
Mines == 2

\* Number of toggle_flag calls explored in one behaviour.
MaxToggles == 2

NumCells == Rows * Cols
Indices == 0 .. (NumCells - 1)

\* The coordinates of the board: the view passes no others (it makes its
\* calls from the handlers of the cells it renders, main.rs lines 216-221).
ValidRows == 0 .. (Rows - 1)
ValidCols == 0 .. (Cols - 1)

\* The coordinates another caller of the public API could pass: the valid
\* ones and one row and one column beyond the board.
RowArgs == 0 .. Rows
ColArgs == 0 .. Cols

VARIABLES
    game,      \* the Minesweeper struct
    ret,       \* outcome of the last call: "none", "unit", "true", "false", "panic"
    toggles,   \* toggle_flag calls made so far
    call,      \* the engine call in progress, when calls are followed loop by loop
    view,      \* the gesture fields of MinesweeperView
    mouse      \* the buttons held down and the engine calls of the last event

vars == <<game, ret, toggles, call, view, mouse>>

----------------------------------------------------------------------------
\* CellContent
Empty == [kind |-> "Empty", n |-> 0]
Mine == [kind |-> "Mine", n |-> 0]
Number(k) == [kind |-> "Number", n |-> k]

\* Cell::new
NewCell == [content |-> Empty, state |-> "Hidden", exploded |-> FALSE, wrong_flag |-> FALSE]

\* Minesweeper::new
NewGame ==
    [cells |-> [i \in Indices |-> NewCell],
     status |-> "NotStarted",
     flags_placed |-> 0,
     start_time |-> "None",
     elapsed_seconds |-> 0]

\* Minesweeper::index: (row * cols + col) as usize
index(row, col) == row * Cols + col

\* The eight offsets in the order of the two nested loops of neighbors.
Offsets ==
    << <<-1, -1>>, <<-1, 0>>, <<-1, 1>>,
       <<0, -1>>,             <<0, 1>>,
       <<1, -1>>,  <<1, 0>>,  <<1, 1>> >>

InBoard(p) == p[1] >= 0 /\ p[1] < Rows /\ p[2] >= 0 /\ p[2] < Cols

\* Variant of neighbors: the bounds test lets the last column out.
neighbors_short_column(row, col) ==
    SelectSeq([k \in 1 .. 8 |-> <<row + Offsets[k][1], col + Offsets[k][2]>>],
              LAMBDA p : InBoard(p) /\ p[2] < Cols - 1)

\* Minesweeper::neighbors: the in-board cells of the 3x3 block around
\* (row, col), in loop order.  (row, col) itself need not be in the board.
neighbors(row, col) ==
    SelectSeq([k \in 1 .. 8 |-> <<row + Offsets[k][1], col + Offsets[k][2]>>], InBoard)

----------------------------------------------------------------------------
\* Variant of mine_candidates: the safe index stays among the candidates.
mine_candidates_keep_safe(safe_index) == Indices

\* place_mines, lines 119-123: all indices, with the safe index removed when
\* it is one of them.
mine_candidates(safe_index) == Indices \ {safe_index}

\* Variant of MineChoices: the slice of the shuffled list is one short.
MineChoices_one_short(safe_index) ==
    {s \in SUBSET mine_candidates(safe_index) : Cardinality(s) = Mines - 1}

\* place_mines, lines 125-128: the first `mines` entries of the shuffled
\* list can be any set of `mines` candidates.
MineChoices(safe_index) ==
    {s \in SUBSET mine_candidates(safe_index) : Cardinality(s) = Mines}

\* place_mines, lines 129-151: mark the mines, then give every other cell
\* with at least one mine neighbour its Number.
place_mines(g, mine_indices) ==
    LET mined == [i \in Indices |->
                    IF i \in mine_indices
                    THEN [g.cells[i] EXCEPT !.content = Mine]
                    ELSE g.cells[i]]
        count(r, c) ==
            LET ns == neighbors(r, c)
            IN Cardinality({k \in 1 .. Len(ns) :
                              mined[index(ns[k][1], ns[k][2])].content = Mine})
        numbered == [i \in Indices |->
                    LET r == i \div Cols
                        c == i % Cols
                    IN IF mined[i].content = Mine THEN mined[i]
                       ELSE IF count(r, c) > 0
                            THEN [mined[i] EXCEPT !.content = Number(count(r, c))]
                            ELSE mined[i]]
    IN [g EXCEPT !.cells = numbered]

\* Variant of reveal_all_mines: every mine revealed at the loss is marked
\* exploded.
reveal_all_mines_explodes_all(g) ==
    [g EXCEPT !.cells = [i \in Indices |->
        LET c1 == IF g.cells[i].content = Mine /\ g.cells[i].state # "Flagged"
                  THEN [g.cells[i] EXCEPT !.state = "Revealed", !.exploded = TRUE]
                  ELSE g.cells[i]
        IN IF c1.content # Mine /\ c1.state = "Flagged"
           THEN [c1 EXCEPT !.wrong_flag = TRUE, !.state = "Revealed"]
           ELSE c1]]

\* Variant of reveal_all_mines: a Flagged mine is revealed like the others.
reveal_all_mines_reveals_flagged(g) ==
    [g EXCEPT !.cells = [i \in Indices |->
        LET c1 == IF g.cells[i].content = Mine
                  THEN [g.cells[i] EXCEPT !.state = "Revealed"]
                  ELSE g.cells[i]
        IN IF c1.content # Mine /\ c1.state = "Flagged"
           THEN [c1 EXCEPT !.wrong_flag = TRUE, !.state = "Revealed"]
           ELSE c1]]

\* Minesweeper::reveal_all_mines
reveal_all_mines(g) ==
    [g EXCEPT !.cells = [i \in Indices |->
        LET c1 == IF g.cells[i].content = Mine /\ g.cells[i].state # "Flagged"
                  THEN [g.cells[i] EXCEPT !.state = "Revealed"]
                  ELSE g.cells[i]
        IN IF c1.content # Mine /\ c1.state = "Flagged"
           THEN [c1 EXCEPT !.wrong_flag = TRUE, !.state = "Revealed"]
           ELSE c1]]

\* Variant of flag_all_mines: the counter is set, the mines are not flagged.
flag_all_mines_counter_only(g) ==
    [g EXCEPT !.flags_placed = Mines]

\* Variant of flag_all_mines: at the win the mines are shown, not flagged.
flag_all_mines_shows_mines(g) ==
    [g EXCEPT !.cells = [i \in Indices |->
                            IF g.cells[i].content = Mine
                            THEN [g.cells[i] EXCEPT !.state = "Revealed"]
                            ELSE g.cells[i]],
              !.flags_placed = Mines]

\* Minesweeper::flag_all_mines: every mine becomes Flagged; the counter is
\* counted up per mine and finally overwritten with self.mines.
flag_all_mines(g) ==
    [g EXCEPT !.cells = [i \in Indices |->
                            IF g.cells[i].content = Mine
                            THEN [g.cells[i] EXCEPT !.state = "Flagged"]
                            ELSE g.cells[i]],
              !.flags_placed = Mines]

\* Variant of check_win: the mines are not subtracted from the total.
check_win_ignores_mines(g) ==
    LET total_cells == Rows * Cols
        revealed_count == Cardinality({i \in Indices : g.cells[i].state = "Revealed"})
    IN IF revealed_count = total_cells
       THEN flag_all_mines([g EXCEPT !.status = "Won"])
       ELSE g

\* Variant of check_win: every cell that is not Hidden counts as revealed.
check_win_counts_non_hidden(g) ==
    LET total_cells == Rows * Cols
        revealed_count == Cardinality({i \in Indices : g.cells[i].state # "Hidden"})
    IN IF revealed_count = total_cells - Mines
       THEN flag_all_mines([g EXCEPT !.status = "Won"])
       ELSE g

\* Minesweeper::check_win
check_win(g) ==
    LET total_cells == Rows * Cols
        revealed_count == Cardinality({i \in Indices : g.cells[i].state = "Revealed"})
    IN IF revealed_count = total_cells - Mines
       THEN flag_all_mines([g EXCEPT !.status = "Won"])
       ELSE g

\* Variant of visit_neighbor: a QuestionMark neighbour is revealed as well.
visit_neighbor_question_mark(fs, n) ==
    LET n_idx == index(n[1], n[2])
    IN IF fs.cells[n_idx].state \in {"Hidden", "QuestionMark"}
       THEN [cells |-> [fs.cells EXCEPT ![n_idx].state = "Revealed"],
             stack |-> IF fs.cells[n_idx].content = Empty
                       THEN Append(fs.stack, n)
                       ELSE fs.stack]
       ELSE fs

\* Variant of visit_neighbor: every neighbour that is not Revealed yet is
\* revealed, whatever its mark.
visit_neighbor_reveals_marked(fs, n) ==
    LET n_idx == index(n[1], n[2])
    IN IF fs.cells[n_idx].state # "Revealed"
       THEN [cells |-> [fs.cells EXCEPT ![n_idx].state = "Revealed"],
             stack |-> IF fs.cells[n_idx].content = Empty
                       THEN Append(fs.stack, n)
                       ELSE fs.stack]
       ELSE fs

\* Variant of visit_neighbor: the push is made for every Empty neighbour,
\* whether or not this visit revealed it.
visit_neighbor_pushes_again(fs, n) ==
    LET n_idx == index(n[1], n[2])
    IN [cells |-> IF fs.cells[n_idx].state = "Hidden"
                  THEN [fs.cells EXCEPT ![n_idx].state = "Revealed"]
                  ELSE fs.cells,
        stack |-> IF fs.cells[n_idx].content = Empty
                  THEN Append(fs.stack, n)
                  ELSE fs.stack]

\* reveal, lines 185-191: the body of the loop over the neighbours of a
\* popped cell, for the neighbour n.  fs = [cells, stack].
visit_neighbor(fs, n) ==
    LET n_idx == index(n[1], n[2])
    IN IF fs.cells[n_idx].state = "Hidden"
       THEN [cells |-> [fs.cells EXCEPT ![n_idx].state = "Revealed"],
             stack |-> IF fs.cells[n_idx].content = Empty
                       THEN Append(fs.stack, n)
                       ELSE fs.stack]
       ELSE fs

\* reveal, line 184: the loop over the neighbours of a popped cell.
RECURSIVE visit_neighbors(_, _)
visit_neighbors(fs, ns) ==
    IF ns = << >> THEN fs
    ELSE visit_neighbors(visit_neighbor(fs, Head(ns)), Tail(ns))

\* reveal, lines 183-192: one turn of the work-list loop, on a stack that is
\* not empty: pop the last entry and visit its neighbours.
fill_step(fs) ==
    LET top == fs.stack[Len(fs.stack)]
        popped == [fs EXCEPT !.stack = SubSeq(fs.stack, 1, Len(fs.stack) - 1)]
    IN visit_neighbors(popped, neighbors(top[1], top[2]))

\* reveal, lines 182-193: the work-list loop of the flood fill.
RECURSIVE flood_fill(_)
flood_fill(fs) ==
    IF fs.stack = << >> THEN fs.cells
    ELSE flood_fill(fill_step(fs))

\* reveal panics at line 166 when the index is past the end of the vector
\* (after the mines were placed, if this was the first reveal).
reveal_panics(g, row, col) ==
    /\ g.status \notin {"Won", "Lost"}
    /\ index(row, col) \notin Indices

\* Variant of reveal: no early return on a finished game.
reveal_after_end(g, row, col, mine_indices) ==
    LET g1 == IF g.status = "NotStarted"
              THEN place_mines([g EXCEPT !.status = "Playing", !.start_time = "Some"],
                               mine_indices)
              ELSE g
        idx == index(row, col)
    IN IF idx \notin Indices THEN g1
       ELSE IF g1.cells[idx].state = "Flagged" \/ g1.cells[idx].state = "Revealed" THEN g1
       ELSE
       LET g2 == [g1 EXCEPT !.cells[idx].state = "Revealed"]
       IN CASE g2.cells[idx].content = Mine ->
                 reveal_all_mines([g2 EXCEPT !.status = "Lost", !.cells[idx].exploded = TRUE])
            [] g2.cells[idx].content = Empty ->
                 check_win([g2 EXCEPT !.cells =
                              flood_fill([cells |-> g2.cells, stack |-> << <<row, col>> >>])])
            [] OTHER -> check_win(g2)

\* Variant of reveal: the Flagged and Revealed test comes before the lazy
\* start.
reveal_tests_flag_first(g, row, col, mine_indices) ==
    IF g.status = "Won" \/ g.status = "Lost" THEN g
    ELSE IF index(row, col) \in Indices
            /\ g.cells[index(row, col)].state \in {"Flagged", "Revealed"} THEN g
    ELSE
    LET g1 == IF g.status = "NotStarted"
              THEN place_mines([g EXCEPT !.status = "Playing", !.start_time = "Some"],
                               mine_indices)
              ELSE g
        idx == index(row, col)
    IN IF idx \notin Indices THEN g1
       ELSE
       LET g2 == [g1 EXCEPT !.cells[idx].state = "Revealed"]
       IN CASE g2.cells[idx].content = Mine ->
                 reveal_all_mines([g2 EXCEPT !.status = "Lost", !.cells[idx].exploded = TRUE])
            [] g2.cells[idx].content = Empty ->
                 check_win([g2 EXCEPT !.cells =
                              flood_fill([cells |-> g2.cells, stack |-> << <<row, col>> >>])])
            [] OTHER -> check_win(g2)

\* Minesweeper::reveal.  mine_indices is the outcome of the shuffle, used
\* only when the status is NotStarted.
reveal(g, row, col, mine_indices) ==
    IF g.status = "Won" \/ g.status = "Lost" THEN g
    ELSE
    LET g1 == IF g.status = "NotStarted"
              THEN place_mines([g EXCEPT !.status = "Playing", !.start_time = "Some"],
                               mine_indices)
              ELSE g
        idx == index(row, col)
    IN IF idx \notin Indices THEN g1
       ELSE IF g1.cells[idx].state = "Flagged" \/ g1.cells[idx].state = "Revealed" THEN g1
       ELSE
       LET g2 == [g1 EXCEPT !.cells[idx].state = "Revealed"]
       IN CASE g2.cells[idx].content = Mine ->
                 reveal_all_mines([g2 EXCEPT !.status = "Lost", !.cells[idx].exploded = TRUE])
            [] g2.cells[idx].content = Empty ->
                 check_win([g2 EXCEPT !.cells =
                              flood_fill([cells |-> g2.cells, stack |-> << <<row, col>> >>])])
            [] OTHER -> check_win(g2)

\* toggle_flag panics at line 207 when the index is past the end.
toggle_flag_panics(g, row, col) ==
    /\ g.status \in {"Playing", "NotStarted"}
    /\ index(row, col) \notin Indices

\* Variant of toggle_flag: no check of the status.
toggle_flag_after_end(g, row, col) ==
    LET idx == index(row, col)
    IN IF idx \notin Indices THEN g
       ELSE CASE g.cells[idx].state = "Hidden" ->
                   [g EXCEPT !.cells[idx].state = "Flagged",
                             !.flags_placed = g.flags_placed + 1]
              [] g.cells[idx].state = "Flagged" ->
                   [g EXCEPT !.cells[idx].state = "QuestionMark",
                             !.flags_placed = g.flags_placed - 1]
              [] g.cells[idx].state = "QuestionMark" ->
                   [g EXCEPT !.cells[idx].state = "Hidden"]
              [] OTHER -> g

\* Variant of toggle_flag: the counter is not decremented when a flag turns
\* into a question mark.
toggle_flag_no_decrement(g, row, col) ==
    IF g.status # "Playing" /\ g.status # "NotStarted" THEN g
    ELSE
    LET idx == index(row, col)
    IN IF idx \notin Indices THEN g
       ELSE CASE g.cells[idx].state = "Hidden" ->
                   [g EXCEPT !.cells[idx].state = "Flagged",
                             !.flags_placed = g.flags_placed + 1]
              [] g.cells[idx].state = "Flagged" ->
                   [g EXCEPT !.cells[idx].state = "QuestionMark"]
              [] g.cells[idx].state = "QuestionMark" ->
                   [g EXCEPT !.cells[idx].state = "Hidden"]
              [] OTHER -> g

\* Variant of toggle_flag: a flag goes straight back to Hidden.
toggle_flag_skips_question_mark(g, row, col) ==
    IF g.status # "Playing" /\ g.status # "NotStarted" THEN g
    ELSE
    LET idx == index(row, col)
    IN IF idx \notin Indices THEN g
       ELSE CASE g.cells[idx].state = "Hidden" ->
                   [g EXCEPT !.cells[idx].state = "Flagged",
                             !.flags_placed = g.flags_placed + 1]
              [] g.cells[idx].state = "Flagged" ->
                   [g EXCEPT !.cells[idx].state = "Hidden",
                             !.flags_placed = g.flags_placed - 1]
              [] g.cells[idx].state = "QuestionMark" ->
                   [g EXCEPT !.cells[idx].state = "Hidden"]
              [] OTHER -> g

\* Variant of toggle_flag: the first flag starts the game.
toggle_flag_starts_game(g, row, col) ==
    IF g.status # "Playing" /\ g.status # "NotStarted" THEN g
    ELSE
    LET idx == index(row, col)
        g1 == [g EXCEPT !.status = "Playing", !.start_time = "Some"]
    IN IF idx \notin Indices THEN g
       ELSE CASE g.cells[idx].state = "Hidden" ->
                   [g1 EXCEPT !.cells[idx].state = "Flagged",
                              !.flags_placed = g.flags_placed + 1]
              [] g.cells[idx].state = "Flagged" ->
                   [g1 EXCEPT !.cells[idx].state = "QuestionMark",
                              !.flags_placed = g.flags_placed - 1]
              [] g.cells[idx].state = "QuestionMark" ->
                   [g1 EXCEPT !.cells[idx].state = "Hidden"]
              [] OTHER -> g

\* Variant of toggle_flag: flagging a Hidden cell does not count it.
toggle_flag_no_increment(g, row, col) ==
    IF g.status # "Playing" /\ g.status # "NotStarted" THEN g
    ELSE
    LET idx == index(row, col)
    IN IF idx \notin Indices THEN g
       ELSE CASE g.cells[idx].state = "Hidden" ->
                   [g EXCEPT !.cells[idx].state = "Flagged"]
              [] g.cells[idx].state = "Flagged" ->
                   [g EXCEPT !.cells[idx].state = "QuestionMark",
                             !.flags_placed = g.flags_placed - 1]
              [] g.cells[idx].state = "QuestionMark" ->
                   [g EXCEPT !.cells[idx].state = "Hidden"]
              [] OTHER -> g

\* Minesweeper::toggle_flag
toggle_flag(g, row, col) ==
    IF g.status # "Playing" /\ g.status # "NotStarted" THEN g
    ELSE
    LET idx == index(row, col)
    IN IF idx \notin Indices THEN g
       ELSE CASE g.cells[idx].state = "Hidden" ->
                   [g EXCEPT !.cells[idx].state = "Flagged",
                             !.flags_placed = g.flags_placed + 1]
              [] g.cells[idx].state = "Flagged" ->
                   [g EXCEPT !.cells[idx].state = "QuestionMark",
                             !.flags_placed = g.flags_placed - 1]
              [] g.cells[idx].state = "QuestionMark" ->
                   [g EXCEPT !.cells[idx].state = "Hidden"]
              [] OTHER -> g

\* chord panics at line 229 when the index is past the end.
chord_panics(g, row, col) ==
    /\ g.status = "Playing"
    /\ index(row, col) \notin Indices

\* chord, line 235-238: Flagged cells among the neighbours.
flag_count(g, row, col) ==
    LET ns == neighbors(row, col)
    IN Cardinality({k \in 1 .. Len(ns) :
                      g.cells[index(ns[k][1], ns[k][2])].state = "Flagged"})

\* chord, lines 242-246: the body of the loop over the neighbours, for the
\* neighbour n: reveal it when it is Hidden or QuestionMark at its turn.
chord_step(g, n) ==
    LET st == g.cells[index(n[1], n[2])].state
    IN IF st = "Hidden" \/ st = "QuestionMark"
       THEN reveal(g, n[1], n[2], {})
       ELSE g

\* chord, line 241: the loop over the neighbours.
RECURSIVE chord_loop(_, _)
chord_loop(g, ns) ==
    IF ns = << >> THEN g
    ELSE chord_loop(chord_step(g, Head(ns)), Tail(ns))

\* Variant of chord_fires: the Flagged neighbours are not compared with the
\* number.
chord_fires_any_count(g, row, col) ==
    /\ g.status = "Playing"
    /\ index(row, col) \in Indices
    /\ g.cells[index(row, col)].state = "Revealed"
    /\ g.cells[index(row, col)].content.kind = "Number"

\* Variant of chord_fires: the chord is refused when a Flagged neighbour
\* holds no mine.
chord_fires_validates_flags(g, row, col) ==
    /\ g.status = "Playing"
    /\ index(row, col) \in Indices
    /\ g.cells[index(row, col)].state = "Revealed"
    /\ g.cells[index(row, col)].content.kind = "Number"
    /\ flag_count(g, row, col) = g.cells[index(row, col)].content.n
    /\ LET ns == neighbors(row, col)
       IN \A k \in 1 .. Len(ns) :
             LET c == g.cells[index(ns[k][1], ns[k][2])]
             IN c.state = "Flagged" => c.content = Mine

\* chord, lines 225-240: TRUE when the chord fires.
chord_fires(g, row, col) ==
    /\ g.status = "Playing"
    /\ index(row, col) \in Indices
    /\ g.cells[index(row, col)].state = "Revealed"
    /\ g.cells[index(row, col)].content.kind = "Number"
    /\ flag_count(g, row, col) = g.cells[index(row, col)].content.n

\* Variant of chord: the loop returns after the first neighbour it reveals.
chord_stops_after_first(g, row, col) ==
    LET ns == neighbors(row, col)
        open == {k \in 1 .. Len(ns) :
                   g.cells[index(ns[k][1], ns[k][2])].state \in {"Hidden", "QuestionMark"}}
        first == CHOOSE k \in open : \A m \in open : k <= m
    IN IF chord_fires(g, row, col) /\ open # {}
       THEN chord_step(g, ns[first])
       ELSE g

\* Minesweeper::chord, the state it leaves.
chord(g, row, col) ==
    IF chord_fires(g, row, col)
    THEN chord_loop(g, neighbors(row, col))
    ELSE g

----------------------------------------------------------------------------
\* No engine call in progress.
NoCall == [pc |-> "idle", stack |-> << >>, rest |-> << >>, caller |-> "none", pushes |-> 0]

\* Option::None of chord_target; Some((row, col)) is <<row, col>>.
NoTarget == << >>

\* MinesweeperView::new, the gesture fields.
NewView == [chord_target |-> NoTarget, left_mouse_down |-> FALSE, right_mouse_down |-> FALSE]

\* No button held, no left press just made, no chord call by the last event.
NoButtons == [held |-> {}, last_left |-> << >>, chord_called |-> FALSE]

Init ==
    /\ game = NewGame
    /\ ret = "none"
    /\ toggles = 0
    /\ call = NoCall
    /\ view = NewView
    /\ mouse = NoButtons

\* The shuffle outcomes a reveal(row, col) call can draw.
Shuffles(g, row, col) ==
    IF g.status = "NotStarted" THEN MineChoices(index(row, col)) ELSE {{}}

Reveal(row, col) ==
    /\ ret # "panic"
    /\ \E mine_indices \in Shuffles(game, row, col) :
          game' = reveal(game, row, col, mine_indices)
    /\ ret' = IF reveal_panics(game, row, col) THEN "panic" ELSE "unit"
    /\ UNCHANGED <<toggles, call, view, mouse>>

ToggleFlag(row, col) ==
    /\ ret # "panic"
    /\ toggles < MaxToggles
    /\ game' = toggle_flag(game, row, col)
    /\ ret' = IF toggle_flag_panics(game, row, col) THEN "panic" ELSE "unit"
    /\ toggles' = toggles + 1
    /\ UNCHANGED <<call, view, mouse>>

Chord(row, col) ==
    /\ ret # "panic"
    /\ game' = chord(game, row, col)
    /\ ret' = IF chord_panics(game, row, col) THEN "panic"
              ELSE IF chord_fires(game, row, col) THEN "true" ELSE "false"
    /\ UNCHANGED <<toggles, call, view, mouse>>

Next ==
    \E row \in ValidRows, col \in ValidCols :
        \/ Reveal(row, col)
        \/ ToggleFlag(row, col)
        \/ Chord(row, col)

Spec == Init /\ [][Next]_vars

NextAnyArgs ==
    \E row \in RowArgs, col \in ColArgs :
        \/ Reveal(row, col)
        \/ ToggleFlag(row, col)
        \/ Chord(row, col)

SpecAnyArgs == Init /\ [][NextAnyArgs]_vars

----------------------------------------------------------------------------
\* The view around the engine: the new-game commands and the one-second
\* timer of main.rs.

\* Difficulty
Difficulties == {"Beginner", "Intermediate", "Expert"}

\* Difficulty::config: (rows, cols, mines)
config(difficulty) ==
    CASE difficulty = "Beginner" -> <<9, 9, 10>>
      [] difficulty = "Intermediate" -> <<16, 16, 40>>
      [] difficulty = "Expert" -> <<16, 30, 99>>

\* The cap of the displayed seconds, main.rs line 59.
MaxElapsed == 999

\* Seconds of play explored in one game.
MaxSeconds == 2

\* Variant of reset: the clock of the old game is kept.
reset_keeps_clock(g, difficulty) ==
    [NewGame EXCEPT !.elapsed_seconds = g.elapsed_seconds]

\* Minesweeper::reset: *self = Self::new(difficulty).  The model has one
\* board, which stands for the board of whichever preset is asked for.
reset(g, difficulty) == NewGame

\* Variant of tick: the status is not looked at.
tick_any_status(g) ==
    LET t == g.elapsed_seconds + 1
    IN [g EXCEPT !.elapsed_seconds = IF t > MaxElapsed THEN MaxElapsed ELSE t]

\* start_timer, lines 57-61: the update the timer task makes each second.
tick(g) ==
    IF g.status = "Playing"
    THEN LET t == g.elapsed_seconds + 1
         IN [g EXCEPT !.elapsed_seconds = IF t > MaxElapsed THEN MaxElapsed ELSE t]
    ELSE g

\* MinesweeperView::reset, from the NewGame and Diff* commands.
Reset(difficulty) ==
    /\ ret # "panic"
    /\ game' = reset(game, difficulty)
    /\ ret' = "unit"
    /\ UNCHANGED <<toggles, call, view, mouse>>

\* The seconds of a long wait, which brings a running clock to its cap.
LongWait == MaxElapsed - 1

\* One firing of the timer, in the first seconds of a game or after a long
\* wait.
Tick ==
    /\ ret # "panic"
    /\ game.elapsed_seconds < MaxSeconds \/ game.elapsed_seconds >= LongWait
    /\ game' = tick(game)
    /\ UNCHANGED <<ret, toggles, call, view, mouse>>

NextView ==
    \/ Next
    \/ Tick
    \/ \E difficulty \in Difficulties : Reset(difficulty)

SpecView == Init /\ [][NextView]_vars

----------------------------------------------------------------------------
\* n firings of the timer in a row: the first half of them, then the rest.
\* (The test on h, which always holds, has the first half evaluated before
\* the second is begun.)
RECURSIVE ticks(_, _)
ticks(g, n) ==
    IF n = 0 THEN g
    ELSE IF n = 1 THEN tick(g)
    ELSE LET h == ticks(g, n \div 2)
         IN IF h.elapsed_seconds >= g.elapsed_seconds
            THEN ticks(h, n - (n \div 2))
            ELSE h

\* The player leaves a running game alone for LongWait seconds, early in the
\* game: the timer fires that many times with no other event in between.
Wait ==
    /\ ret # "panic"
    /\ game.status = "Playing"
    /\ game.elapsed_seconds <= MaxSeconds
    /\ game' = ticks(game, LongWait)
    /\ UNCHANGED <<ret, toggles, call, view, mouse>>

NextClock ==
    \/ NextView
    \/ Wait

SpecClock == Init /\ [][NextClock]_vars

----------------------------------------------------------------------------
\* The engine followed loop by loop.  A call that reaches a loop stays in
\* progress (call.pc "fill" or "chord") and takes one step per turn of the
\* work-list loop of reveal (line 183) and per turn of the neighbour loop of
\* chord (line 241).  The operations take &mut self and hold no suspension
\* point, so no other call starts while one is in progress.

\* reveal, lines 159-163: the state after the lazy start.
started(g, row, col, mine_indices) ==
    IF g.status = "NotStarted"
    THEN place_mines([g EXCEPT !.status = "Playing", !.start_time = "Some"], mine_indices)
    ELSE g

\* reveal, lines 155-180: TRUE when the call reaches the flood fill.
reveal_fills(g, row, col, mine_indices) ==
    /\ g.status # "Won" /\ g.status # "Lost"
    /\ index(row, col) \in Indices
    /\ LET cell == started(g, row, col, mine_indices).cells[index(row, col)]
       IN /\ cell.state # "Flagged" /\ cell.state # "Revealed"
          /\ cell.content = Empty

\* reveal, lines 155-182: the state when the work-list loop is entered.
reveal_enter(g, row, col, mine_indices) ==
    [started(g, row, col, mine_indices) EXCEPT !.cells[index(row, col)].state = "Revealed"]

\* A call of reveal(row, col): it returns at once, or enters the flood fill.
RevealCall(row, col) ==
    /\ ret # "panic"
    /\ call.pc = "idle"
    /\ \E mine_indices \in Shuffles(game, row, col) :
          IF reveal_fills(game, row, col, mine_indices)
          THEN /\ game' = reveal_enter(game, row, col, mine_indices)
               /\ call' = [NoCall EXCEPT !.pc = "fill", !.stack = << <<row, col>> >>]
               /\ UNCHANGED ret
          ELSE /\ game' = reveal(game, row, col, mine_indices)
               /\ call' = NoCall
               /\ ret' = "unit"
    /\ UNCHANGED <<toggles, view, mouse>>

\* One turn of the while loop of line 183.
FillStep ==
    /\ call.pc = "fill"
    /\ call.stack # << >>
    /\ LET fs == fill_step([cells |-> game.cells, stack |-> call.stack])
       IN /\ game' = [game EXCEPT !.cells = fs.cells]
          /\ call' = [call EXCEPT !.stack = fs.stack,
                                  !.pushes = @ + Len(fs.stack) - (Len(call.stack) - 1)]
    /\ UNCHANGED <<ret, toggles, view, mouse>>

\* The stack is empty: line 194, and the return to the caller.
FillReturn ==
    /\ call.pc = "fill"
    /\ call.stack = << >>
    /\ game' = check_win(game)
    /\ IF call.caller = "chord"
       THEN /\ call' = [call EXCEPT !.pc = "chord", !.pushes = 0]
            /\ UNCHANGED ret
       ELSE /\ call' = NoCall
            /\ ret' = "unit"
    /\ UNCHANGED <<toggles, view, mouse>>

\* A call of toggle_flag(row, col): it has no loop.
ToggleCall(row, col) ==
    /\ call.pc = "idle"
    /\ ToggleFlag(row, col)

\* A call of chord(row, col): it returns false, or enters its loop.
ChordCall(row, col) ==
    /\ ret # "panic"
    /\ call.pc = "idle"
    /\ IF chord_fires(game, row, col)
       THEN /\ call' = [NoCall EXCEPT !.pc = "chord", !.caller = "chord",
                                      !.rest = neighbors(row, col)]
            /\ UNCHANGED ret
       ELSE /\ call' = NoCall
            /\ ret' = "false"
    /\ UNCHANGED <<game, toggles, view, mouse>>

\* One turn of the for loop of line 241: the nested reveal of line 245
\* returns at once or enters its own flood fill.
ChordStep ==
    /\ call.pc = "chord"
    /\ call.rest # << >>
    /\ LET n == Head(call.rest)
           st == game.cells[index(n[1], n[2])].state
       IN IF st = "Hidden" \/ st = "QuestionMark"
          THEN IF reveal_fills(game, n[1], n[2], {})
               THEN /\ game' = reveal_enter(game, n[1], n[2], {})
                    /\ call' = [call EXCEPT !.pc = "fill", !.stack = << n >>,
                                            !.rest = Tail(call.rest)]
               ELSE /\ game' = reveal(game, n[1], n[2], {})
                    /\ call' = [call EXCEPT !.rest = Tail(call.rest)]
          ELSE /\ game' = game
               /\ call' = [call EXCEPT !.rest = Tail(call.rest)]
    /\ UNCHANGED <<ret, toggles, view, mouse>>

\* The loop of chord is over: line 248.
ChordReturn ==
    /\ call.pc = "chord"
    /\ call.rest = << >>
    /\ call' = NoCall
    /\ ret' = "true"
    /\ UNCHANGED <<game, toggles, view, mouse>>

NextSteps ==
    \/ \E row \in ValidRows, col \in ValidCols :
          \/ RevealCall(row, col)
          \/ ToggleCall(row, col)
          \/ ChordCall(row, col)
    \/ FillStep
    \/ FillReturn
    \/ ChordStep
    \/ ChordReturn

SpecSteps == Init /\ [][NextSteps]_vars

\* A call in progress keeps running: it is never suspended.
SpecStepsFair ==
    /\ SpecSteps
    /\ WF_vars(FillStep)
    /\ WF_vars(FillReturn)
    /\ WF_vars(ChordStep)
    /\ WF_vars(ChordReturn)

----------------------------------------------------------------------------

\* The mouse gestures of main.rs.  An event is a press or a release of one
\* button over a cell of the grid or over the window outside the grid.  The
\* listeners a cell carries are those render_cell gave it for the state it
\* is shown in; every handler that changes what is shown ends with
\* cx.notify(), so the listeners are those of the current state.  On a
\* release the listener of the cell runs before the listener of the root
\* element (the framework runs the innermost listener first).
\* flashing_cells, which for 150 ms leaves the Hidden and QuestionMark
\* neighbours of a refused chord without listeners, is not kept: a press or a
\* release over such a cell acts as one over the window outside the grid.
\* The handlers drop what the engine returns (but for that flash), so ret is
\* left as it is; mouse.chord_called tells that the last event called chord.

Buttons == {"Left", "Right", "Middle"}

\* Right clicks on covered cells explored in one behaviour of the gestures.
MaxFlagClicks == 1

\* Where the pointer is: over the cell <<row, col>>, or outside the grid
\* (anywhere in the window but on the face button, which starts a new game).
Outside == << >>
Positions == {<<row, col>> : row \in ValidRows, col \in ValidCols} \cup {Outside}

\* render_cell, lines 359-374: the cell is drawn pressed, without listeners.
visually_pressed(g, v, p) ==
    /\ v.chord_target # NoTarget
    /\ (p[1] - v.chord_target[1]) \in -1 .. 1
    /\ (p[2] - v.chord_target[2]) \in -1 .. 1
    /\ g.cells[index(p[1], p[2])].state \in {"Hidden", "QuestionMark"}

\* render_cell, lines 392-442: the cell carries the listeners of
\* handle_click and handle_right_click.
click_listeners(g, v, p) ==
    /\ p # Outside
    /\ ~visually_pressed(g, v, p)
    /\ g.cells[index(p[1], p[2])].state \in {"Hidden", "Flagged", "QuestionMark"}

\* render_cell, lines 443-497: the cell carries the chord listeners.
chord_listeners(g, v, p) ==
    /\ p # Outside
    /\ g.cells[index(p[1], p[2])].state = "Revealed"
    /\ g.cells[index(p[1], p[2])].content.kind = "Number"

\* MinesweeperView::handle_chord_start
handle_chord_start(v, p) == [v EXCEPT !.chord_target = p]

\* MinesweeperView::handle_chord_cancel
handle_chord_cancel(v) ==
    IF v.chord_target # NoTarget THEN [v EXCEPT !.chord_target = NoTarget] ELSE v

\* handle_chord_end, line 92: the release ends the chord that was started.
chord_ends(v, p) == v.chord_target = p

\* Variant of chord_end_view: the target is kept after the chord.
chord_end_view_keeps_target(v, p) == v

\* handle_chord_end, lines 92-94: the view after it.
chord_end_view(v, p) ==
    IF chord_ends(v, p) THEN [v EXCEPT !.chord_target = NoTarget] ELSE v

\* The listener of the root element for a release of button b, lines 245-252.
root_mouse_up(v, b) ==
    IF b \in {"Left", "Middle"} THEN handle_chord_cancel(v) ELSE v

\* handle_chord_end(row, col) called on the view v by the listener of the
\* cell p for a release of button b, then the listener of the root element.
HandleChordEnd(v, p, b) ==
    /\ game' = IF chord_ends(v, p) THEN chord(game, p[1], p[2]) ELSE game
    /\ view' = root_mouse_up(chord_end_view(v, p), b)
    /\ mouse' = [held |-> mouse.held \ {b},
                 last_left |-> IF b = "Left" THEN mouse.last_left ELSE Outside,
                 chord_called |-> chord_ends(v, p)]

\* The left button goes down over p.  click_count is 2 for the second press
\* in a row over the same cell, with nothing but the release in between.
LeftDown(p, click_count) ==
    /\ "Left" \notin mouse.held
    /\ click_count = 2 => (p # Outside /\ mouse.last_left = p)
    /\ CASE click_listeners(game, view, p) ->
              /\ \E mine_indices \in Shuffles(game, p[1], p[2]) :
                    game' = reveal(game, p[1], p[2], mine_indices)
              /\ UNCHANGED view
         [] chord_listeners(game, view, p) ->
              /\ view' = LET v == [view EXCEPT !.left_mouse_down = TRUE]
                         IN IF click_count = 2 THEN handle_chord_start(v, p)
                            ELSE IF v.right_mouse_down THEN handle_chord_start(v, p)
                            ELSE v
              /\ UNCHANGED game
         [] OTHER -> UNCHANGED <<game, view>>
    /\ mouse' = [held |-> mouse.held \cup {"Left"},
                 last_left |-> IF click_count = 2 THEN Outside ELSE p,
                 chord_called |-> FALSE]
    /\ UNCHANGED <<ret, toggles, call>>

\* The right button goes down over p.
RightDown(p) ==
    /\ "Right" \notin mouse.held
    /\ CASE click_listeners(game, view, p) ->
              /\ toggles < MaxFlagClicks
              /\ game' = toggle_flag(game, p[1], p[2])
              /\ toggles' = toggles + 1
              /\ UNCHANGED view
         [] chord_listeners(game, view, p) ->
              /\ view' = LET v == [view EXCEPT !.right_mouse_down = TRUE]
                         IN IF v.left_mouse_down THEN handle_chord_start(v, p) ELSE v
              /\ UNCHANGED <<game, toggles>>
         [] OTHER -> UNCHANGED <<game, toggles, view>>
    /\ mouse' = [held |-> mouse.held \cup {"Right"}, last_left |-> Outside,
                 chord_called |-> FALSE]
    /\ UNCHANGED <<ret, call>>

\* The middle button goes down over p.
MiddleDown(p) ==
    /\ "Middle" \notin mouse.held
    /\ view' = IF chord_listeners(game, view, p) THEN handle_chord_start(view, p) ELSE view
    /\ mouse' = [held |-> mouse.held \cup {"Middle"}, last_left |-> Outside,
                 chord_called |-> FALSE]
    /\ UNCHANGED <<game, ret, toggles, call>>

\* The left button goes up over p.
LeftUp(p) ==
    /\ "Left" \in mouse.held
    /\ IF chord_listeners(game, view, p)
       THEN HandleChordEnd([view EXCEPT !.left_mouse_down = FALSE], p, "Left")
       ELSE /\ view' = root_mouse_up(view, "Left")
            /\ mouse' = [mouse EXCEPT !.held = @ \ {"Left"}, !.chord_called = FALSE]
            /\ UNCHANGED game
    /\ UNCHANGED <<ret, toggles, call>>

\* The right button goes up over p.
RightUp(p) ==
    /\ "Right" \in mouse.held
    /\ IF chord_listeners(game, view, p)
       THEN HandleChordEnd([view EXCEPT !.right_mouse_down = FALSE], p, "Right")
       ELSE /\ view' = root_mouse_up(view, "Right")
            /\ mouse' = [held |-> mouse.held \ {"Right"}, last_left |-> Outside,
                         chord_called |-> FALSE]
            /\ UNCHANGED game
    /\ UNCHANGED <<ret, toggles, call>>

\* The middle button goes up over p.
MiddleUp(p) ==
    /\ "Middle" \in mouse.held
    /\ IF chord_listeners(game, view, p)
       THEN HandleChordEnd(view, p, "Middle")
       ELSE /\ view' = root_mouse_up(view, "Middle")
            /\ mouse' = [held |-> mouse.held \ {"Middle"}, last_left |-> Outside,
                         chord_called |-> FALSE]
            /\ UNCHANGED game
    /\ UNCHANGED <<ret, toggles, call>>

NextGesture ==
    \E p \in Positions :
        \/ \E click_count \in {1, 2} : LeftDown(p, click_count)
        \/ RightDown(p)
        \/ MiddleDown(p)
        \/ LeftUp(p)
        \/ RightUp(p)
        \/ MiddleUp(p)

SpecGesture == Init /\ [][NextGesture]_vars

----------------------------------------------------------------------------

TypeOK ==
    /\ game.status \in {"NotStarted", "Playing", "Won", "Lost"}
    /\ ret \in {"none", "unit", "true", "false", "panic"}
    /\ toggles \in 0 .. MaxToggles
    /\ call.pc \in {"idle", "fill", "chord"}
    /\ call.caller \in {"none", "chord"}
    /\ view.chord_target \in Positions
    /\ view.left_mouse_down \in BOOLEAN
    /\ view.right_mouse_down \in BOOLEAN
    /\ mouse.held \subseteq Buttons
    /\ mouse.last_left \in Positions
    /\ mouse.chord_called \in BOOLEAN

----------------------------------------------------------------------------
\* Vocabulary of the properties, stated on the board itself and not through
\* the operators above.
Abs(x) == IF x < 0 THEN -x ELSE x

\* The cells 8-adjacent to cell i.
Adj(i) ==
    {j \in Indices \ {i} :
        /\ Abs((i \div Cols) - (j \div Cols)) <= 1
        /\ Abs((i % Cols) - (j % Cols)) <= 1}

CellsIn(g, st) == {i \in Indices : g.cells[i].state = st}
MineCells(g) == {i \in Indices : g.cells[i].content = Mine}
SafeCells(g) == Indices \ MineCells(g)
WrongFlagCells(g) == {i \in Indices : g.cells[i].wrong_flag}

\* A call of one of the three operations on the in-board cell (row, col).
AnyCall(row, col) == Reveal(row, col) \/ ToggleFlag(row, col) \/ Chord(row, col)

----------------------------------------------------------------------------
\* C1: the first reveal(r, c), whatever toggle_flag calls came before it
\* while NotStarted, leaves cell (r, c) without a mine and the status is not
\* Lost after the call.
C1_FirstClickSafe ==
    [][\A row \in ValidRows, col \in ValidCols :
         (game.status = "NotStarted" /\ Reveal(row, col))
            => /\ game'.cells[row * Cols + col].content # Mine
               /\ game'.status # "Lost"]_vars

\* A first reveal has uncovered one cell of a board on which flags had been
\* placed.
C1_Witness ==
    /\ game.status = "Playing"
    /\ ret = "unit"
    /\ Cardinality(CellsIn(game, "Revealed")) = 1
    /\ Cardinality(MineCells(game)) = Mines
    /\ game.flags_placed > 0

\* C2: in status Won or Lost, reveal, toggle_flag and chord on any in-board
\* cell leave the engine unchanged, and chord returns false.
C2_TerminalNoOp ==
    [][\A row \in ValidRows, col \in ValidCols :
         (game.status \in {"Won", "Lost"} /\ AnyCall(row, col))
            => /\ game' = game
               /\ Chord(row, col) => ret' = "false"]_vars

\* chord has been called on a finished game.
C2_Witness ==
    /\ game.status \in {"Won", "Lost"}
    /\ ret = "false"

\* C3 as stated: flags_placed is the number of Flagged cells in every
\* reachable state.
C3_FlagsCountFlagged ==
    game.flags_placed = Cardinality(CellsIn(game, "Flagged"))

\* C3 amended: flags_placed is the number of Flagged cells while the status
\* is NotStarted, Playing or Won; after a loss it is the number of Flagged
\* cells plus the number of wrong_flag cells, which reveal_all_mines turned
\* to Revealed without touching the counter.
C3_FlagsCountAmended ==
    /\ game.status # "Lost"
          => game.flags_placed = Cardinality(CellsIn(game, "Flagged"))
    /\ game.status = "Lost"
          => game.flags_placed = Cardinality(CellsIn(game, "Flagged"))
                                 + Cardinality(WrongFlagCells(game))

\* A game lost with a flag on a cell that holds no mine.
C3_Witness ==
    /\ game.status = "Lost"
    /\ WrongFlagCells(game) # {}

\* The Empty cells connected to the cells of S through Empty cells.
RECURSIVE EmptyReach(_, _)
EmptyReach(g, S) ==
    LET T == S \cup {j \in Indices :
                        /\ g.cells[j].content = Empty
                        /\ \E i \in S : j \in Adj(i)}
    IN IF T = S THEN S ELSE EmptyReach(g, T)

\* The connected component of Empty cells of cell i and the Number cells
\* that border it.
EmptyRegion(g, i) ==
    LET comp == EmptyReach(g, {i})
    IN comp \cup {j \in Indices :
                    /\ g.cells[j].content.kind = "Number"
                    /\ \E k \in comp : j \in Adj(k)}

\* The cells reached from S by steps from an Empty cell already reached to
\* an adjacent cell that is Hidden.
RECURSIVE HiddenReach(_, _)
HiddenReach(g, S) ==
    LET T == S \cup {j \in Indices :
                        /\ g.cells[j].state = "Hidden"
                        /\ \E i \in S : g.cells[i].content = Empty /\ j \in Adj(i)}
    IN IF T = S THEN S ELSE HiddenReach(g, T)

\* reveal(row, col) is called in status Playing on a Hidden or QuestionMark
\* cell whose content is Empty.
RevealsEmpty(row, col) ==
    /\ game.status = "Playing"
    /\ game.cells[row * Cols + col].state \in {"Hidden", "QuestionMark"}
    /\ game.cells[row * Cols + col].content = Empty
    /\ Reveal(row, col)

FlaggedAround(g, i) == Cardinality(Adj(i) \cap CellsIn(g, "Flagged"))

\* Cell i is one on which chord is due to fire.
ChordReady(g, i) ==
    /\ g.status = "Playing"
    /\ g.cells[i].state = "Revealed"
    /\ g.cells[i].content.kind = "Number"
    /\ FlaggedAround(g, i) = g.cells[i].content.n

\* C5 as stated: chord on a Revealed Number(n) cell with n Flagged
\* neighbours, in status Playing, returns true and leaves no neighbour
\* Hidden or QuestionMark.
C5_ChordRevealsAll ==
    [][\A row \in ValidRows, col \in ValidCols :
         (ChordReady(game, row * Cols + col) /\ Chord(row, col))
            => /\ ret' = "true"
               /\ \A j \in Adj(row * Cols + col) :
                     game'.cells[j].state \notin {"Hidden", "QuestionMark"}]_vars

\* C5 amended: such a chord returns true and, unless one of its reveals
\* detonates a mine (the status is Lost afterwards), leaves no neighbour
\* Hidden or QuestionMark.
C5_ChordRevealsAllUnlessLost ==
    [][\A row \in ValidRows, col \in ValidCols :
         (ChordReady(game, row * Cols + col) /\ Chord(row, col))
            => /\ ret' = "true"
               /\ game'.status # "Lost"
                     => \A j \in Adj(row * Cols + col) :
                           game'.cells[j].state \notin {"Hidden", "QuestionMark"}]_vars

\* A chord has fired and the game is not lost.
C5_Witness ==
    /\ ret = "true"
    /\ game.status \in {"Playing", "Won"}

\* C6: chord returns false and changes nothing when the status is not
\* Playing, or the target is not Revealed, or its content is not a Number,
\* or the number of its Flagged neighbours differs from that number.
C6_ChordNoOp ==
    [][\A row \in ValidRows, col \in ValidCols :
         (~ChordReady(game, row * Cols + col) /\ Chord(row, col))
            => /\ ret' = "false"
               /\ game' = game]_vars

\* A chord has been refused on a game in progress that shows a Number cell
\* whose Flagged neighbours do not match its number.
C6_Witness ==
    /\ ret = "false"
    /\ game.status = "Playing"
    /\ \E i \in Indices :
          /\ game.cells[i].state = "Revealed"
          /\ game.cells[i].content.kind = "Number"
          /\ FlaggedAround(game, i) # game.cells[i].content.n

\* C7: a reveal, toggle_flag or chord call with row >= R or col >= C raises
\* a bounds error and leaves the engine unchanged.
C7_OutOfRangeFailsLoudly ==
    [][\A row \in RowArgs, col \in ColArgs :
         ((row >= Rows \/ col >= Cols) /\ AnyCall(row, col))
            => /\ ret' = "panic"
               /\ game' = game]_vars

\* C8 as stated: after the first reveal on a freshly constructed engine the
\* status is Playing and the revealed cell holds no mine.
C8_FirstRevealPlaying ==
    [][\A row \in ValidRows, col \in ValidCols :
         (game = NewGame /\ Reveal(row, col))
            => /\ game'.status = "Playing"
               /\ game'.cells[row * Cols + col].content # Mine]_vars

\* C8 amended: after the first reveal on a freshly constructed engine the
\* revealed cell holds no mine and the status is Playing, or Won when that
\* reveal (with its flood fill) has uncovered every cell without a mine.
C8_FirstRevealPlayingOrWon ==
    [][\A row \in ValidRows, col \in ValidCols :
         (game = NewGame /\ Reveal(row, col))
            => /\ game'.cells[row * Cols + col].content # Mine
               /\ game'.cells[row * Cols + col].state = "Revealed"
               /\ game'.status =
                     IF SafeCells(game') \subseteq CellsIn(game', "Revealed")
                     THEN "Won" ELSE "Playing"]_vars

\* The state a first reveal on a fresh engine leaves when it uncovers a
\* single Number cell: no flag was ever toggled and one cell is Revealed.
C8_Witness ==
    /\ game.status = "Playing"
    /\ toggles = 0
    /\ ret = "unit"
    /\ Cardinality(CellsIn(game, "Revealed")) = 1
    /\ \A i \in CellsIn(game, "Revealed") : game.cells[i].content.kind = "Number"

\* C9: unless a mine was detonated, the status is Won exactly when the
\* number of Revealed cells is R*C - M; no Playing state has every cell
\* without a mine Revealed, and in a Won state every such cell is Revealed.
C9_WinDetection ==
    /\ game.status # "Lost"
          => (game.status = "Won"
                <=> Cardinality(CellsIn(game, "Revealed")) = NumCells - Mines)
    /\ game.status = "Playing"
          => ~(SafeCells(game) \subseteq CellsIn(game, "Revealed"))
    /\ game.status = "Won"
          => SafeCells(game) \subseteq CellsIn(game, "Revealed")

\* A game won by a chord.
C9_Witness ==
    /\ game.status = "Won"
    /\ ret = "true"
    /\ Cardinality(CellsIn(game, "Revealed")) = NumCells - Mines

\* C10: in a Won state every Mine cell is Flagged and flags_placed is M.
C10_WonFlagsAllMines ==
    game.status = "Won"
       => /\ \A i \in MineCells(game) : game.cells[i].state = "Flagged"
          /\ game.flags_placed = Mines

\* A game won without a single toggle_flag call: every mine was Hidden
\* before the winning reveal and the counter was 0.
C10_Witness ==
    /\ game.status = "Won"
    /\ toggles = 0
    /\ Cardinality(MineCells(game)) = Mines

ExplodedCells(g) == {i \in Indices : g.cells[i].exploded}

\* The mines around cell i that a chord on i would reveal.
OpenMinesAround(g, i) ==
    {j \in Adj(i) : /\ g.cells[j].content = Mine
                    /\ g.cells[j].state \in {"Hidden", "QuestionMark"}}

\* C11: at most one cell is exploded, and an exploded cell is a Revealed
\* mine of a Lost game; revealing a mine that is not Flagged, directly or as
\* the first such neighbour of a chord, sets the status to Lost and marks
\* that cell, and no other, exploded.
C11_SingleExplosion ==
    /\ [](/\ Cardinality(ExplodedCells(game)) <= 1
          /\ \A i \in ExplodedCells(game) :
                /\ game.status = "Lost"
                /\ game.cells[i].content = Mine
                /\ game.cells[i].state = "Revealed")
    /\ [][\A row \in ValidRows, col \in ValidCols :
            LET i == row * Cols + col
            IN /\ (/\ game.status = "Playing"
                   /\ game.cells[i].content = Mine
                   /\ game.cells[i].state \in {"Hidden", "QuestionMark"}
                   /\ Reveal(row, col))
                     => /\ game'.status = "Lost"
                        /\ ExplodedCells(game') = {i}
               /\ (/\ ChordReady(game, i)
                   /\ OpenMinesAround(game, i) # {}
                   /\ Chord(row, col))
                     => /\ game'.status = "Lost"
                        /\ ExplodedCells(game') =
                              {CHOOSE j \in OpenMinesAround(game, i) :
                                  \A k \in OpenMinesAround(game, i) : j <= k}]_vars

\* A game lost on one mine while another mine was revealed by the loss.
C11_Witness ==
    /\ game.status = "Lost"
    /\ Cardinality(ExplodedCells(game)) = 1
    /\ \E i \in MineCells(game) :
          game.cells[i].state = "Revealed" /\ ~game.cells[i].exploded

\* C12: the call that loses the game leaves every mine that was Hidden or
\* QuestionMark Revealed, every mine that was Flagged still Flagged, and
\* every Flagged cell without a mine Revealed with wrong_flag; wrong_flag is
\* set on no other cell, and the other cells without a mine keep their
\* state (in a chord, the neighbours uncovered before the detonation are
\* Revealed).  A Lost state never changes afterwards, so it keeps this shape.
C12_LossFinalization ==
    /\ [](game.status = "Lost"
            => \A i \in Indices :
                  /\ game.cells[i].content = Mine
                        => game.cells[i].state \in {"Revealed", "Flagged"}
                  /\ game.cells[i].content # Mine
                        => game.cells[i].state # "Flagged"
                  /\ game.cells[i].wrong_flag
                        => /\ game.cells[i].content # Mine
                           /\ game.cells[i].state = "Revealed")
    /\ [][(game.status # "Lost" /\ game'.status = "Lost")
            => \A i \in Indices :
                  LET old == game.cells[i]
                      new == game'.cells[i]
                  IN /\ new.wrong_flag <=> (old.content # Mine /\ old.state = "Flagged")
                     /\ (old.content = Mine /\ old.state = "Flagged")
                           => new.state = "Flagged"
                     /\ (old.content = Mine /\ old.state \in {"Hidden", "QuestionMark"})
                           => new.state = "Revealed"
                     /\ (old.content # Mine /\ old.state = "Flagged")
                           => new.state = "Revealed"
                     /\ (old.content # Mine /\ old.state # "Flagged")
                           => \/ new.state = old.state
                              \/ ret' = "true" /\ old.state # "Revealed"
                                               /\ new.state = "Revealed"]_vars

\* A lost game that shows a mine still Flagged and a wrong flag.
C12_Witness ==
    /\ game.status = "Lost"
    /\ \E i \in MineCells(game) : game.cells[i].state = "Flagged"
    /\ WrongFlagCells(game) # {}

\* The number of mines around cell i.
MinesAround(g, i) == Cardinality(Adj(i) \cap MineCells(g))

\* C13: once the mines are placed, a cell without a mine is Number(k) when
\* k > 0 of its neighbours hold a mine and Empty when none does; k is at
\* most 8.
C13_NumbersCountMines ==
    game.status # "NotStarted"
       => \A i \in SafeCells(game) :
             /\ MinesAround(game, i) <= 8
             /\ game.cells[i].content =
                   IF MinesAround(game, i) > 0
                   THEN [kind |-> "Number", n |-> MinesAround(game, i)]
                   ELSE [kind |-> "Empty", n |-> 0]

\* A generated board with a cell between two mines and a cell away from
\* every mine.
C13_Witness ==
    /\ game.status = "Playing"
    /\ \E i \in SafeCells(game) : MinesAround(game, i) = 2 /\ game.cells[i].content.n = 2
    /\ \E i \in SafeCells(game) : MinesAround(game, i) = 0 /\ game.cells[i].content.kind = "Empty"

\* The state and the change of the counter that follow a cell state in the
\* cycle of toggle_flag.
NextInCycle(st) ==
    CASE st = "Hidden" -> [state |-> "Flagged", delta |-> 1]
      [] st = "Flagged" -> [state |-> "QuestionMark", delta |-> -1]
      [] st = "QuestionMark" -> [state |-> "Hidden", delta |-> 0]
      [] OTHER -> [state |-> st, delta |-> 0]

\* C14: in status NotStarted or Playing, toggle_flag moves its cell one step
\* along Hidden -> Flagged -> QuestionMark -> Hidden with the counter +1, -1
\* and unchanged, leaves a Revealed cell and the counter alone, and changes
\* nothing else; two more toggles of a cell that is not Revealed bring the
\* engine back to where it was.
C14_ToggleCycle ==
    [][\A row \in ValidRows, col \in ValidCols :
         (game.status \in {"NotStarted", "Playing"} /\ ToggleFlag(row, col))
            => LET i == row * Cols + col
                   step == NextInCycle(game.cells[i].state)
               IN /\ game' = [game EXCEPT
                                 !.cells[i].state = step.state,
                                 !.flags_placed = game.flags_placed + step.delta]
                  /\ game.cells[i].state # "Revealed"
                        => /\ game' # game
                           /\ toggle_flag(toggle_flag(game', row, col), row, col) = game]_vars

\* A cell has been toggled twice and shows a question mark.
C14_Witness ==
    /\ game.status \in {"NotStarted", "Playing"}
    /\ ret = "unit"
    /\ toggles = 2
    /\ CellsIn(game, "QuestionMark") # {}
    /\ game.flags_placed = 0

\* C15: toggle_flag in status NotStarted leaves the status NotStarted and
\* every content Empty; a NotStarted engine has no mine and no Revealed cell.
C15_ToggleDoesNotStart ==
    /\ [](game.status = "NotStarted"
            => /\ MineCells(game) = {}
               /\ CellsIn(game, "Revealed") = {}
               /\ \A i \in Indices : game.cells[i].content.kind = "Empty")
    /\ [][\A row \in ValidRows, col \in ValidCols :
            (game.status = "NotStarted" /\ ToggleFlag(row, col))
               => /\ game'.status = "NotStarted"
                  /\ game'.start_time = "None"
                  /\ \A i \in Indices : game'.cells[i].content = game.cells[i].content]_vars

\* Flags were placed and the game has not started.
C15_Witness ==
    /\ game.status = "NotStarted"
    /\ toggles > 0
    /\ CellsIn(game, "Flagged") # {}

\* The moves of the status one call can make: one step along
\* NotStarted -> Playing -> {Won, Lost}, or the two steps NotStarted ->
\* Playing -> Won of a first reveal that completes the board.
StatusMoves ==
    { <<"NotStarted", "Playing">>, <<"NotStarted", "Won">>,
      <<"Playing", "Won">>, <<"Playing", "Lost">> }

\* C16: the status never goes back, never moves between Won and Lost, leaves
\* NotStarted only in a reveal and leaves Playing only in a reveal or a
\* chord.
C16_StatusOrder ==
    [][game'.status # game.status
         => /\ <<game.status, game'.status>> \in StatusMoves
            /\ game.status = "NotStarted" => ret' = "unit" /\ toggles' = toggles
            /\ game.status = "Playing"
                  => \/ ret' = "unit" /\ toggles' = toggles
                     \/ ret' = "true"
            /\ \A row \in ValidRows, col \in ValidCols :
                  ~ToggleFlag(row, col)]_vars

\* A game that was started and then finished by a chord.
C16_Witness ==
    /\ game.status \in {"Won", "Lost"}
    /\ ret = "true"
    /\ game.start_time = "Some"

Contents(g) == [i \in Indices |-> g.cells[i].content]

\* C17: the contents are written by the first reveal and by no later call:
\* the call that leaves NotStarted places exactly M mines, and from then on
\* every call, a win or a loss included, leaves every content as it is.
C17_ContentFixed ==
    /\ [](game.status # "NotStarted" => Cardinality(MineCells(game)) = Mines)
    /\ [][/\ game.status # "NotStarted" => Contents(game') = Contents(game)
          /\ Contents(game') # Contents(game)
                => /\ game.status = "NotStarted"
                   /\ game'.status # "NotStarted"
                   /\ \E row \in ValidRows, col \in ValidCols : Reveal(row, col)
          /\ (game.status = "NotStarted" /\ game'.status # "NotStarted")
                => Cardinality(MineCells(game')) = Mines]_vars

\* A finished game whose board still holds its M mines.
C17_Witness ==
    /\ game.status = "Lost"
    /\ ret = "unit"
    /\ Cardinality(MineCells(game)) = Mines
    /\ CellsIn(game, "Revealed") \cap SafeCells(game) # {}

\* C18: reset, after anything, leaves the state of a new engine: status
\* NotStarted, R*C cells all Empty, Hidden, not exploded and without
\* wrong_flag, no flag counted, no second elapsed and no start time; and
\* every preset has R*C > M > 0.
C18_ResetIsNew ==
    [][\A difficulty \in Difficulties :
         /\ config(difficulty)[1] * config(difficulty)[2] > config(difficulty)[3]
         /\ config(difficulty)[3] > 0
         /\ Reset(difficulty)
               => /\ game'.status = "NotStarted"
                  /\ DOMAIN game'.cells = 0 .. (Rows * Cols - 1)
                  /\ \A i \in DOMAIN game'.cells :
                        /\ game'.cells[i].content.kind = "Empty"
                        /\ game'.cells[i].state = "Hidden"
                        /\ ~game'.cells[i].exploded
                        /\ ~game'.cells[i].wrong_flag
                  /\ game'.flags_placed = 0
                  /\ game'.elapsed_seconds = 0
                  /\ game'.start_time = "None"]_vars

\* A fresh engine on which a flag was toggled earlier: one toggle of a fresh
\* board leaves a flag, so the board was reset since.
C18_Witness ==
    /\ game.status = "NotStarted"
    /\ toggles = 1
    /\ CellsIn(game, "Hidden") = Indices
    /\ game.elapsed_seconds = 0

\* C19: in status Playing, reveal on a Flagged or Revealed cell changes
\* nothing; reveal on a QuestionMark cell reveals it and does what it would
\* do were the cell Hidden; and the flood fill of a reveal leaves every other
\* Flagged or QuestionMark cell as it is (a mine among them is Flagged by
\* the win when the reveal completes the board).
C19_FlagsBlockReveal ==
    [][\A row \in ValidRows, col \in ValidCols :
         (game.status = "Playing" /\ Reveal(row, col))
            => LET i == row * Cols + col
               IN /\ game.cells[i].state \in {"Flagged", "Revealed"}
                        => game' = game
                  /\ game.cells[i].state = "QuestionMark"
                        => /\ game'.cells[i].state = "Revealed"
                           /\ game' = reveal([game EXCEPT !.cells[i].state = "Hidden"],
                                             row, col, {})
                  /\ (game.cells[i].state \in {"Hidden", "QuestionMark"}
                         /\ game.cells[i].content = Empty)
                        => \A j \in (CellsIn(game, "Flagged")
                                       \cup CellsIn(game, "QuestionMark")) \ {i} :
                              \/ game'.cells[j] = game.cells[j]
                              \/ /\ game'.status = "Won"
                                 /\ game.cells[j].content = Mine
                                 /\ game'.cells[j].state = "Flagged"]_vars

\* A flood fill has passed by a question mark: a QuestionMark cell lies next
\* to a Revealed Empty cell while the game goes on.
C19_Witness ==
    /\ game.status = "Playing"
    /\ \E i \in Indices :
          /\ game.cells[i].content = Empty
          /\ game.cells[i].state = "Revealed"
          /\ \E j \in Adj(i) : game.cells[j].state = "QuestionMark"

\* C20: a chord on a Revealed Number(n) cell with n Flagged neighbours, one
\* of whose Hidden or QuestionMark neighbours is a mine, returns true and
\* loses the game.
C20_ChordTrustsFlags ==
    [][\A row \in ValidRows, col \in ValidCols :
         (/\ ChordReady(game, row * Cols + col)
          /\ OpenMinesAround(game, row * Cols + col) # {}
          /\ Chord(row, col))
            => /\ ret' = "true"
               /\ game'.status = "Lost"]_vars

\* A game lost by a chord that trusted a flag on a cell without a mine.
C20_Witness ==
    /\ game.status = "Lost"
    /\ ret = "true"
    /\ WrongFlagCells(game) # {}
    /\ ExplodedCells(game) # {}

\* The cells pushed by a turn of the work-list loop: the entries of the new
\* stack above what the pop left of the old one.
PushedBy(old, new) == {new[k] : k \in Len(old) .. Len(new)}

\* C21: every call of reveal, toggle_flag and chord returns.  A turn of the
\* flood-fill loop pushes only cells it has just changed from Hidden to
\* Revealed, so the pushes of one fill never exceed R*C and the stack
\* empties; the reveal calls nested in a chord never start another chord
\* loop; and a call in progress always reaches its return.
C21_CallsTerminate ==
    /\ [](/\ call.pushes <= NumCells
          /\ \A k \in 1 .. Len(call.stack) :
                game.cells[index(call.stack[k][1], call.stack[k][2])].state = "Revealed")
    /\ [][/\ FillStep =>
                \A n \in PushedBy(call.stack, call'.stack) :
                   /\ game.cells[index(n[1], n[2])].state = "Hidden"
                   /\ game'.cells[index(n[1], n[2])].state = "Revealed"
          /\ call.pc = "fill" => call'.rest = call.rest
          /\ call.pc = "chord" => Len(call'.rest) <= Len(call.rest)]_vars
    /\ (call.pc # "idle") ~> (call.pc = "idle")

\* A flood fill running inside a chord, which has pushed a cell.
C21_Witness ==
    /\ call.pc = "fill"
    /\ call.caller = "chord"
    /\ call.pushes >= 1

\* The clock after one more second of play.
NextSecond(t) == IF t + 1 > 999 THEN 999 ELSE t + 1

\* C22: however the timer interleaves with reveal, toggle_flag, chord and
\* reset, a tick adds a second exactly when the status is Playing at that
\* tick; the clock never passes 999, is 0 while the status is NotStarted and
\* does not move while the status stays Won or Lost.
C22_TimerTick ==
    /\ [](/\ game.elapsed_seconds \in 0 .. 999
          /\ game.status = "NotStarted" => game.elapsed_seconds = 0)
    /\ [][/\ Tick =>
                game'.elapsed_seconds =
                    IF game.status = "Playing"
                    THEN NextSecond(game.elapsed_seconds)
                    ELSE game.elapsed_seconds
          /\ (game.status \in {"Won", "Lost"} /\ game'.status = game.status)
                => game'.elapsed_seconds = game.elapsed_seconds
          /\ game'.elapsed_seconds # game.elapsed_seconds
                => \/ game.status = "Playing" /\ (Tick \/ Wait)
                   \/ \E difficulty \in Difficulties : Reset(difficulty)]_vars

\* A game that ended with the clock at its cap.
C22_Witness ==
    /\ game.status \in {"Won", "Lost"}
    /\ game.elapsed_seconds = 999

\* A button goes up over p.
AnyUp(p) == LeftUp(p) \/ RightUp(p) \/ MiddleUp(p)

\* C23: whatever the presses and releases of the three buttons, a release
\* over the revealed Number cell on which handle_chord_start set the target
\* makes exactly one chord(row, col) call and clears the target; no other
\* event calls chord, so the release of the second button of a two-button
\* chord, or a release after handle_chord_cancel, calls nothing.
C23_OneChordPerGesture ==
    [][/\ (/\ view.chord_target # NoTarget
           /\ chord_listeners(game, view, view.chord_target)
           /\ AnyUp(view.chord_target))
             => /\ mouse'.chord_called
                /\ game' = chord(game, view.chord_target[1], view.chord_target[2])
                /\ view'.chord_target = NoTarget
       /\ mouse'.chord_called
             => /\ view.chord_target # NoTarget
                /\ view'.chord_target = NoTarget
                /\ AnyUp(view.chord_target)
       /\ (~mouse'.chord_called /\ game' # game) => mouse.held \subseteq mouse'.held]_vars

\* The right button of a left+right chord has just gone up and the chord
\* fired; the left button is still down.
C23_Witness ==
    /\ mouse.chord_called
    /\ game.status = "Won"
    /\ mouse.held = {"Left"}
    /\ view.left_mouse_down
    /\ view.chord_target = NoTarget

\* C24: flags_placed never underflows and never passes R*C: it stays within
\* 0 .. R*C, never above the number of cells that carry or carried a flag,
\* and it is at least 1 in every state where toggle_flag can take
\* its Flagged -> QuestionMark branch (status NotStarted or Playing, some
\* cell Flagged); the toggle_flag call that takes the branch leaves it at
\* one less.
C24_FlagsNoUnderflow ==
    /\ [](/\ game.flags_placed \in 0 .. NumCells
          /\ game.flags_placed
                <= Cardinality(CellsIn(game, "Flagged") \cup WrongFlagCells(game))
          /\ (game.status \in {"NotStarted", "Playing"} /\ CellsIn(game, "Flagged") # {})
                => game.flags_placed >= 1)
    /\ [][\A row \in ValidRows, col \in ValidCols :
             (/\ game.status \in {"NotStarted", "Playing"}
              /\ game.cells[row * Cols + col].state = "Flagged"
              /\ ToggleFlag(row, col))
                => /\ game.flags_placed >= 1
                   /\ game'.flags_placed = game.flags_placed - 1]_vars

\* The Flagged -> QuestionMark branch has brought the counter back to 0 in
\* a running game.
C24_Witness ==
    /\ game.status = "Playing"
    /\ CellsIn(game, "QuestionMark") # {}
    /\ game.flags_placed = 0

\* C25: while the status is NotStarted, Playing or Won no mine is Revealed,
\* no cell is exploded and no cell has wrong_flag; a Revealed mine, an
\* exploded cell or a wrong_flag cell is found only in status Lost.
C25_NoMineExposed ==
    game.status # "Lost"
       => /\ MineCells(game) \cap CellsIn(game, "Revealed") = {}
          /\ ExplodedCells(game) = {}
          /\ WrongFlagCells(game) = {}

\* A game won after a flood fill: cells were uncovered next to the mines
\* and the mines are all covered.
C25_Witness ==
    /\ game.status = "Won"
    /\ \E i \in Indices : game.cells[i].content = Empty /\ game.cells[i].state = "Revealed"
    /\ MineCells(game) \subseteq CellsIn(game, "Flagged")
    /\ game.elapsed_seconds > 0

\* The state of every cell.
States(g) == [i \in Indices |-> g.cells[i].state]

\* C26: from NotStarted with (r, c) Flagged, reveal(r, c) moves the status to
\* Playing and places M mines, none on (r, c), while (r, c) stays Flagged, no
\* cell becomes Revealed and flags_placed is unchanged; a reveal of a mine
\* cell made after that, with no cell uncovered yet, loses the game.
C26_FlaggedFirstReveal ==
    [][\A row \in ValidRows, col \in ValidCols :
          /\ (/\ game.status = "NotStarted"
              /\ game.cells[row * Cols + col].state = "Flagged"
              /\ Reveal(row, col))
                => /\ game'.status = "Playing"
                   /\ Cardinality(MineCells(game')) = Mines
                   /\ (row * Cols + col) \notin MineCells(game')
                   /\ States(game') = States(game)
                   /\ CellsIn(game', "Revealed") = {}
                   /\ game'.flags_placed = game.flags_placed
          /\ (/\ game.status = "Playing"
              /\ CellsIn(game, "Revealed") = {}
              /\ game.cells[row * Cols + col].state = "Hidden"
              /\ game.cells[row * Cols + col].content = Mine
              /\ Reveal(row, col))
                => /\ game'.status = "Lost"
                   /\ game'.cells[row * Cols + col].exploded]_vars

\* A game lost by the first cell it uncovered: the only safe cells shown
\* are those that carried a flag, among them the target of the first
\* reveal.
C26_Witness ==
    /\ game.status = "Lost"
    /\ WrongFlagCells(game) # {}
    /\ SafeCells(game) \cap CellsIn(game, "Revealed") = WrongFlagCells(game)
    /\ Cardinality(ExplodedCells(game)) = 1

\* C27: left_mouse_down (right_mouse_down) is true only while the left
\* (right) button is held, wherever the button was pressed and released; and
\* the release that ends a lone press of the right button, no other button
\* held, never calls chord.
C27_ButtonFlagsMatch ==
    /\ [](/\ view.left_mouse_down => "Left" \in mouse.held
          /\ view.right_mouse_down => "Right" \in mouse.held)
    /\ [][\A p \in Positions :
             (mouse.held = {"Right"} /\ RightUp(p)) => ~mouse'.chord_called]_vars

====
